---- MODULE Spec2Model ----
(***************************************************************************)
(* Inventory service: item records and their photo files, in the two       *)
(* persistence variants of the repository.                                 *)
(*   "file" : src/main.js          in-memory `inventory` flushed to        *)
(*                                 inventory.json, synchronous handlers    *)
(*   "sql"  : src/unnamed/part_000 rows of table `inventory`, async        *)
(*                                 handlers that suspend at every          *)
(*                                 `await pool.query(...)`                 *)
(* A request occupies a slot from its arrival (multer has stored the       *)
(* upload) to its response.  In the file variant a handler is one step;    *)
(* in the sql variant a handler is a sequence of steps, one for each query *)
(* it awaits, so the steps of different requests interleave.               *)
(***************************************************************************)
EXTENDS Integers, Sequences, FiniteSets, TLC

\* ---- bounds ----
MaxId   == 2        \* ids handed out by one store
MaxBlob == 2        \* uploads stored by multer
MaxReq  == 2        \* requests in flight
MaxCalls == 2       \* requests received in one run

Slots     == 1..MaxReq
TargetIds == {1, 2}   \* id of the first item, and another id
Names     == {"b"}
Descs     == {"e"}

\* JS null / undefined (an absent body field, an item without photo)
NULL == "null"

\* request fields: a value, or absent (NULL); a name may also be empty
NameIn == Names \cup {NULL, ""}
DescIn == Descs \cup {NULL}

Variants == {"file", "sql"}
Ops == {"register", "list", "get", "update", "getphoto", "putphoto",
        "delete", "search"}
ByIdOps == Ops \ {"register", "list"}

\* multer({dest}) names each stored upload with a fresh random token
BlobName(n) == "f" \o ToString(n)

\* `rows[0]` of an empty result, `find` without a match
NoItem == [id |-> 0, inventory_name |-> NULL, description |-> NULL,
           photo |-> NULL]

\* (mutant) only null/undefined count as missing
Falsy_OnlyNull(x) == x = NULL

\* JS truthiness of a string-or-null value: `!x` holds for null,
\* undefined and ""
Falsy(x) == x = NULL \/ x = ""

\* (mutant) the operands are swapped: the stored value wins
Coalesce_Right(a, b) == IF b = NULL THEN a ELSE b

\* (mutant) the supplied value is taken even when it is absent
Coalesce_Left(a, b) == a

\* a ?? b
Coalesce(a, b) == IF a = NULL THEN b ELSE a

VARIABLES
  variant,    \* which program runs; fixed by Init
  inventory,  \* file: the in-memory object {nextId, list}
  dbFile,     \* file: the content of inventory.json
  rows,       \* sql: the rows of table inventory
  seq,        \* sql: next value of the id sequence
  blobs,      \* names of the files in the upload directory
  nextBlob,   \* number of the next upload multer stores
  reqs,       \* slot -> request in flight and its response
  calls,      \* number of requests received so far
  handed,     \* history: the highest id a register response (200) has returned
  removed     \* history: the ids whose delete has answered 200

vars == <<variant, inventory, dbFile, rows, seq, blobs, nextBlob, reqs, calls,
          handed, removed>>

Idle == [op |-> "none", pc |-> "idle", id |-> 0, inventory_name |-> NULL,
         description |-> NULL, has_photo |-> NULL, file |-> NULL,
         item |-> NoItem, unlinked |-> NULL, status |-> 0,
         views |-> <<>>, msg |-> ""]

NewReq(op, id, name, desc, hint, file) ==
  [Idle EXCEPT !.op = op, !.pc = "recv", !.id = id, !.inventory_name = name,
               !.description = desc, !.has_photo = hint, !.file = file]

\* res.status(code).json(...)/send(...): the handler is finished
Respond(r, code, views, msg) ==
  [r EXCEPT !.pc = "done", !.status = code, !.views = views, !.msg = msg,
            !.item = NoItem]

\* ---- pure functions ----

Max(a, b) == IF a >= b THEN a ELSE b

PhotoUrl(v, id) ==
  IF v = "file" THEN "http://host:port/inventory/" \o ToString(id) \o "/photo"
  ELSE "/inventory/" \o ToString(id) \o "/photo"

formatItemResponse(v, item) ==
  [item EXCEPT !.photo = IF ~Falsy(item.photo) THEN PhotoUrl(v, item.id)
                         ELSE NULL]

\* (mutant) the marker is appended to a description that already has it
searchResponse_Twice(v, item, has_photo) ==
  LET f == formatItemResponse(v, item)
      marker == IF has_photo # "on" THEN ""
                ELSE IF ~Falsy(f.photo) THEN " [Photo]"
                ELSE " [No photo available]"
  IN [id |-> f.id, inventory_name |-> f.inventory_name,
      description |-> f.description \o marker \o marker]

\* const { photo, ...responseItem } = formatItemResponse(item); the marker
\* is appended to the copy
searchResponse(v, item, has_photo) ==
  LET f == formatItemResponse(v, item)
      marker == IF has_photo # "on" THEN ""
                ELSE IF ~Falsy(f.photo)
                     THEN (IF v = "file" THEN " [Photo:" \o f.photo \o "]"
                           ELSE " [Photo: " \o f.photo \o " ]")
                     ELSE " [No photo available]"
  IN [id |-> f.id, inventory_name |-> f.inventory_name,
      description |-> f.description \o marker]

\* inventory.list.find((v) => v.id === id)
find(list, id) ==
  IF \E i \in 1..Len(list) : list[i].id = id
  THEN list[CHOOSE i \in 1..Len(list) :
              list[i].id = id /\ \A j \in 1..(i-1) : list[j].id # id]
  ELSE NoItem

IndexOf(list, id) ==
  CHOOSE i \in 1..Len(list) :
    list[i].id = id /\ \A j \in 1..(i-1) : list[j].id # id

\* JSON.stringify(inventory[, null, indent]) and JSON.parse: the document
\* keeps numbers, strings and nulls; the indentation is lost by the parse
\* (mutant) the counter is written as it was at startup
JSONstringify_StaleId(inv, indent) ==
  [indent |-> indent, nextId |-> 1, list |-> inv.list]

JSONstringify(inv, indent) ==
  [indent |-> indent, nextId |-> inv.nextId, list |-> inv.list]

\* (mutant) the next id is derived from the number of items
JSONparse_CountIds(doc) == [nextId |-> Len(doc.list) + 1, list |-> doc.list]

\* (mutant) the persisted counter is ignored at startup
JSONparse_DropCounter(doc) == [nextId |-> 1, list |-> doc.list]

JSONparse(doc) == [nextId |-> doc.nextId, list |-> doc.list]

\* (mutant) only the first item is presented
formatList_First(v, list) ==
  [i \in 1..(IF Len(list) > 0 THEN 1 ELSE 0) |-> formatItemResponse(v, list[i])]

\* list.map(formatItemResponse)
formatList(v, list) == [i \in 1..Len(list) |-> formatItemResponse(v, list[i])]

\* (mutant) the filter keeps every item
FilterOut_KeepAll(list, item) == list

FilterOut(list, item) == SelectSeq(list, LAMBDA x : x # item)

\* ---- initial state ----

\* The store the process finds when it starts: inventory.json (file) or the
\* table (sql) is empty, or holds one item registered by an earlier run,
\* with or without a photo whose file is in the upload directory.
Item1(photo) == [id |-> 1, inventory_name |-> "a", description |-> "d",
                 photo |-> photo]

InitialStores ==
  { [list |-> <<>>, blobs |-> {}],
    [list |-> <<Item1(NULL)>>, blobs |-> {}],
    [list |-> <<Item1(BlobName(1))>>, blobs |-> {BlobName(1)}] }

Range(f) == {f[i] : i \in DOMAIN f}

Init ==
  /\ variant \in Variants
  /\ \E st \in InitialStores :
       /\ inventory = [nextId |-> Len(st.list) + 1, list |-> st.list]
       /\ dbFile = JSONstringify([nextId |-> Len(st.list) + 1, list |-> st.list], 0)
       /\ rows = Range(st.list)
       /\ seq = Len(st.list) + 1
       /\ blobs = st.blobs
       /\ nextBlob = Cardinality(st.blobs) + 1
  /\ reqs = [s \in Slots |-> Idle]
  /\ calls = 0
  /\ handed = seq - 1
  /\ removed = {}

\* ---- arrival of a request ----

Free(r) == r.pc \in {"idle", "done"}

\* A request is received: it takes the first free slot, and the responses
\* of the finished requests have been delivered.
Arrives(s) ==
  /\ Free(reqs[s])
  /\ \A t \in Slots : t < s => ~Free(reqs[t])
  /\ calls < MaxCalls

\* upload.single("photo"): multer stores the upload under a fresh name
\* before the handler runs
Upload(up) == IF up THEN BlobName(nextBlob) ELSE NULL

\* (mutant) the upload never reaches the upload directory
WithUpload_Lost(r) == blobs

WithUpload(r) == IF r.file # NULL THEN blobs \cup {r.file} ELSE blobs

\* (mutant) the upload is left where multer stored it
Discard_Keep(dir, r) == dir

\* if (req.file) fs.unlinkSync(req.file.path)
Discard(dir, r) == IF r.file # NULL THEN dir \ {r.file} ELSE dir

\* the slots after the request of slot s has got as far as rec
Take(s, rec) ==
  [t \in Slots |-> IF t = s THEN rec
                   ELSE IF Free(reqs[t]) THEN Idle ELSE reqs[t]]

Counted(r) ==
  /\ r.file # NULL => nextBlob <= MaxBlob
  /\ nextBlob' = IF r.file # NULL THEN nextBlob + 1 ELSE nextBlob
  /\ calls' = calls + 1

\* ---- file variant: src/main.js ----
\* A handler runs to completion, so the arrival of a request and its
\* handler are one step (between the two nothing but the request's own
\* upload is touched).  fs.writeFileSync may throw (ok = FALSE): the
\* in-memory object is already changed, the file is not, and express
\* answers 500.

\* (mutant) the change to the item is lost
ReplaceAt_Lost(list, i, item) == list

ReplaceAt(list, i, item) == [list EXCEPT ![i] = item]

FRegister(s) ==
  /\ variant = "file" /\ Arrives(s)
  /\ inventory.nextId <= MaxId
  /\ \E name \in NameIn, desc \in DescIn, up \in BOOLEAN, ok \in BOOLEAN :
       LET r == NewReq("register", 0, name, desc, NULL, Upload(up)) IN
       /\ Counted(r)
       /\ blobs' = WithUpload(r)
       /\ IF Falsy(r.inventory_name)
          THEN /\ ok
               /\ reqs' = Take(s, Respond(r, 400, <<>>, "Name required"))
               /\ UNCHANGED <<inventory, dbFile, handed>>
          ELSE LET description == IF Falsy(r.description) THEN ""
                                  ELSE r.description
                   id == inventory.nextId
                   item == [id |-> id, inventory_name |-> r.inventory_name,
                            description |-> description, photo |-> r.file]
                   inv == [nextId |-> id + 1,
                           list |-> Append(inventory.list, item)]
               IN /\ inventory' = inv
                  /\ dbFile' = IF ok THEN JSONstringify(inv, 0) ELSE dbFile
                  /\ handed' = IF ok THEN Max(handed, id) ELSE handed
                  /\ reqs' = Take(s,
                       IF ok THEN Respond(r, 200, <<formatItemResponse("file", item)>>, "")
                       ELSE Respond(r, 500, <<>>, "write failed"))
  /\ UNCHANGED <<variant, rows, seq, removed>>

FList(s) ==
  /\ variant = "file" /\ Arrives(s)
  /\ LET r == NewReq("list", 0, NULL, NULL, NULL, NULL) IN
     /\ Counted(r)
     /\ reqs' = Take(s, Respond(r, 200, formatList("file", inventory.list), ""))
  /\ UNCHANGED <<variant, inventory, dbFile, rows, seq, blobs, handed, removed>>

FGet(s) ==
  /\ variant = "file" /\ Arrives(s)
  /\ \E id \in TargetIds :
       LET r == NewReq("get", id, NULL, NULL, NULL, NULL)
           item == find(inventory.list, r.id)
       IN /\ Counted(r)
          /\ reqs' = Take(s,
               IF item # NoItem
               THEN Respond(r, 200, <<formatItemResponse("file", item)>>, "")
               ELSE Respond(r, 404, <<>>, "Inventory with this id not found"))
  /\ UNCHANGED <<variant, inventory, dbFile, rows, seq, blobs, handed, removed>>

FUpdate(s) ==
  /\ variant = "file" /\ Arrives(s)
  /\ \E id \in TargetIds, name \in NameIn, desc \in DescIn, ok \in BOOLEAN :
       LET r == NewReq("update", id, name, desc, NULL, NULL)
           item == find(inventory.list, r.id)
       IN /\ Counted(r)
          /\ IF item = NoItem
             THEN /\ ok
                  /\ reqs' = Take(s,
                       Respond(r, 404, <<>>, "Inventory with this id not found"))
                  /\ UNCHANGED <<inventory, dbFile>>
             ELSE LET upd == [item EXCEPT
                                !.inventory_name =
                                   Coalesce(r.inventory_name, item.inventory_name),
                                !.description =
                                   Coalesce(r.description, item.description)]
                      inv == [inventory EXCEPT !.list =
                                ReplaceAt(inventory.list,
                                          IndexOf(inventory.list, r.id), upd)]
                  IN /\ inventory' = inv
                     /\ dbFile' = IF ok THEN JSONstringify(inv, 0) ELSE dbFile
                     /\ reqs' = Take(s,
                          IF ok THEN Respond(r, 200, <<formatItemResponse("file", upd)>>, "")
                          ELSE Respond(r, 500, <<>>, "write failed"))
  /\ UNCHANGED <<variant, rows, seq, blobs, handed, removed>>

FGetPhoto(s) ==
  /\ variant = "file" /\ Arrives(s)
  /\ \E id \in TargetIds :
       LET r == NewReq("getphoto", id, NULL, NULL, NULL, NULL)
           item == find(inventory.list, r.id)
       IN /\ Counted(r)
          /\ reqs' = Take(s,
               IF item = NoItem
               THEN Respond(r, 404, <<>>, "Inventory with this id not found")
               ELSE IF item.photo = NULL
               THEN Respond(r, 404, <<>>, "Inventory has no photo")
               ELSE IF item.photo \notin blobs
               THEN Respond(r, 404, <<>>, "Photo not found")
               ELSE Respond(r, 200, <<>>, item.photo))
  /\ UNCHANGED <<variant, inventory, dbFile, rows, seq, blobs, handed, removed>>

FPutPhoto(s) ==
  /\ variant = "file" /\ Arrives(s)
  /\ \E id \in TargetIds, up \in BOOLEAN, ok \in BOOLEAN :
       LET r == NewReq("putphoto", id, NULL, NULL, NULL, Upload(up))
           item == find(inventory.list, r.id)
       IN /\ Counted(r)
          /\ IF item = NoItem
             THEN /\ ok
                  /\ blobs' = Discard(WithUpload(r), r)
                  /\ reqs' = Take(s,
                       Respond(r, 404, <<>>, "Inventory with this id not found"))
                  /\ UNCHANGED <<inventory, dbFile>>
             ELSE LET gone == ~Falsy(item.photo) /\ item.photo \in blobs
                      upd == [item EXCEPT !.photo = r.file]
                      inv == [inventory EXCEPT !.list =
                                ReplaceAt(inventory.list,
                                          IndexOf(inventory.list, r.id), upd)]
                      r2 == [r EXCEPT !.unlinked = IF gone THEN item.photo
                                                   ELSE NULL]
                  IN /\ blobs' = IF gone THEN WithUpload(r) \ {item.photo}
                                 ELSE WithUpload(r)
                     /\ inventory' = inv
                     /\ dbFile' = IF ok THEN JSONstringify(inv, 2) ELSE dbFile
                     /\ reqs' = Take(s,
                          IF ok THEN Respond(r2, 200, <<formatItemResponse("file", upd)>>, "")
                          ELSE Respond(r2, 500, <<>>, "write failed"))
  /\ UNCHANGED <<variant, rows, seq, handed, removed>>

FDelete(s) ==
  /\ variant = "file" /\ Arrives(s)
  /\ \E id \in TargetIds, ok \in BOOLEAN :
       LET r == NewReq("delete", id, NULL, NULL, NULL, NULL)
           item == find(inventory.list, r.id)
       IN /\ Counted(r)
          /\ IF item = NoItem
             THEN /\ ok
                  /\ reqs' = Take(s,
                       Respond(r, 404, <<>>, "Inventory with this id not found"))
                  /\ UNCHANGED <<inventory, dbFile, blobs, removed>>
             ELSE LET gone == ~Falsy(item.photo) /\ item.photo \in blobs
                      inv == [inventory EXCEPT !.list =
                                FilterOut(inventory.list, item)]
                      r2 == [r EXCEPT !.unlinked = IF gone THEN item.photo
                                                   ELSE NULL]
                  IN /\ blobs' = IF gone THEN blobs \ {item.photo} ELSE blobs
                     /\ inventory' = inv
                     /\ dbFile' = IF ok THEN JSONstringify(inv, 0) ELSE dbFile
                     /\ removed' = IF ok THEN removed \cup {r.id} ELSE removed
                     /\ reqs' = Take(s,
                          IF ok THEN Respond(r2, 200, <<>>, "")
                          ELSE Respond(r2, 500, <<>>, "write failed"))
  /\ UNCHANGED <<variant, rows, seq, handed>>

FSearch(s) ==
  /\ variant = "file" /\ Arrives(s)
  /\ \E id \in TargetIds, hint \in {NULL, "on"} :
       LET r == NewReq("search", id, NULL, NULL, hint, NULL)
           item == find(inventory.list, r.id)
       IN /\ Counted(r)
          /\ reqs' = Take(s,
               IF item = NoItem
               THEN Respond(r, 404, <<>>, "Inventory with this id not found")
               ELSE Respond(r, 200, <<searchResponse("file", item, r.has_photo)>>, ""))
  /\ UNCHANGED <<variant, inventory, dbFile, rows, seq, blobs, handed, removed>>

\* the process stops and is started again: the upload directory and
\* inventory.json stay, `inventory` is read from the file
Restart ==
  /\ variant = "file"
  /\ inventory' = JSONparse(dbFile)
  /\ reqs' = [s \in Slots |-> Idle]
  /\ UNCHANGED <<variant, dbFile, rows, seq, blobs, nextBlob, calls, handed,
                 removed>>

\* ---- sql variant: src/unnamed/part_000 ----
\* A step is: the database executes the statement the handler awaits, and
\* the handler continues for as long as it touches nothing but its own
\* request (its locals, its response, its own unreferenced upload).  The
\* arrival of a request belongs to its first step.  A continuation that
\* looks at or changes the upload directory is a step of its own (pc
\* "selected").  pool.query may reject (ok = FALSE): the statement had no
\* effect and the catch block runs.
\* pc "insert", "update", "setphoto", "delete": that statement is with the
\* database.

Row(id) == IF \E x \in rows : x.id = id
           THEN CHOOSE x \in rows : x.id = id
           ELSE NoItem

\* register, up to the INSERT
SRegister(s) ==
  /\ variant = "sql" /\ Arrives(s)
  /\ \E name \in NameIn, desc \in DescIn, up \in BOOLEAN :
       LET r == NewReq("register", 0, name, desc, NULL, Upload(up)) IN
       /\ Counted(r)
       /\ IF Falsy(r.inventory_name)
          THEN /\ blobs' = Discard(WithUpload(r), r)
               /\ reqs' = Take(s, Respond(r, 400, <<>>, "Name required"))
          ELSE /\ blobs' = WithUpload(r)
               /\ reqs' = Take(s,
                    [r EXCEPT !.pc = "insert",
                              !.description = IF Falsy(r.description) THEN ""
                                              ELSE r.description])
  /\ UNCHANGED <<variant, inventory, dbFile, rows, seq, handed, removed>>

\* INSERT INTO inventory (...) VALUES ($1,$2,$3) RETURNING id; then the
\* response, or the catch block
SRegisterInsert(s) ==
  /\ variant = "sql" /\ reqs[s].pc = "insert"
  /\ seq <= MaxId
  /\ \E ok \in BOOLEAN :
       LET r == reqs[s]
           row == [id |-> seq, inventory_name |-> r.inventory_name,
                   description |-> r.description, photo |-> r.file]
       IN IF ok
          THEN /\ rows' = rows \cup {row}
               /\ seq' = seq + 1
               /\ blobs' = blobs
               /\ handed' = Max(handed, row.id)
               /\ reqs' = [reqs EXCEPT ![s] =
                    Respond(r, 200, <<formatItemResponse("sql", row)>>, "")]
          ELSE /\ blobs' = Discard(blobs, r)
               /\ reqs' = [reqs EXCEPT ![s] = Respond(r, 500, <<>>, "query failed")]
               /\ UNCHANGED <<rows, seq, handed>>
  /\ UNCHANGED <<variant, inventory, dbFile, nextBlob, calls, removed>>

\* SELECT * FROM inventory: all rows, in an order the database chooses
SList(s) ==
  /\ variant = "sql" /\ Arrives(s)
  /\ \E ok \in BOOLEAN, order \in [1..Cardinality(rows) -> rows] :
       LET r == NewReq("list", 0, NULL, NULL, NULL, NULL) IN
       /\ \A i, j \in 1..Cardinality(rows) : i # j => order[i] # order[j]
       /\ Counted(r)
       /\ reqs' = Take(s,
            IF ok THEN Respond(r, 200, formatList("sql", order), "")
            ELSE Respond(r, 500, <<>>, "query failed"))
  /\ UNCHANGED <<variant, inventory, dbFile, rows, seq, blobs, handed, removed>>

SGet(s) ==
  /\ variant = "sql" /\ Arrives(s)
  /\ \E id \in TargetIds, ok \in BOOLEAN :
       LET r == NewReq("get", id, NULL, NULL, NULL, NULL)
           item == Row(r.id)
       IN /\ Counted(r)
          /\ reqs' = Take(s,
               IF ~ok THEN Respond(r, 500, <<>>, "query failed")
               ELSE IF item # NoItem
               THEN Respond(r, 200, <<formatItemResponse("sql", item)>>, "")
               ELSE Respond(r, 404, <<>>, "Inventory with this id not found"))
  /\ UNCHANGED <<variant, inventory, dbFile, rows, seq, blobs, handed, removed>>

\* update: the SELECT and the merge of the supplied fields
SUpdateSelect(s) ==
  /\ variant = "sql" /\ Arrives(s)
  /\ \E id \in TargetIds, name \in NameIn, desc \in DescIn, ok \in BOOLEAN :
       LET r == NewReq("update", id, name, desc, NULL, NULL)
           item == Row(r.id)
       IN /\ Counted(r)
          /\ reqs' = Take(s,
               IF ~ok THEN Respond(r, 500, <<>>, "query failed")
               ELSE IF item = NoItem
               THEN Respond(r, 404, <<>>, "Inventory with this id not found")
               ELSE [r EXCEPT !.pc = "update",
                       !.item = [item EXCEPT
                          !.inventory_name =
                             Coalesce(r.inventory_name, item.inventory_name),
                          !.description =
                             Coalesce(r.description, item.description)]])
  /\ UNCHANGED <<variant, inventory, dbFile, rows, seq, blobs, handed, removed>>

\* UPDATE inventory SET inventory_name=$1, description=$2 WHERE id = $3
SUpdateExec(s) ==
  /\ variant = "sql" /\ reqs[s].pc = "update"
  /\ \E ok \in BOOLEAN :
       LET r == reqs[s] IN
       IF ok
       THEN /\ rows' = {IF x.id = r.id
                        THEN [x EXCEPT !.inventory_name = r.item.inventory_name,
                                       !.description = r.item.description]
                        ELSE x : x \in rows}
            /\ reqs' = [reqs EXCEPT ![s] =
                 Respond(r, 200, <<formatItemResponse("sql", r.item)>>, "")]
       ELSE /\ rows' = rows
            /\ reqs' = [reqs EXCEPT ![s] = Respond(r, 500, <<>>, "query failed")]
  /\ UNCHANGED <<variant, inventory, dbFile, seq, blobs, nextBlob, calls,
                 handed, removed>>

SGetPhotoSelect(s) ==
  /\ variant = "sql" /\ Arrives(s)
  /\ \E id \in TargetIds, ok \in BOOLEAN :
       LET r == NewReq("getphoto", id, NULL, NULL, NULL, NULL) IN
       /\ Counted(r)
       /\ reqs' = Take(s,
            IF ok THEN [r EXCEPT !.pc = "selected", !.item = Row(r.id)]
            ELSE Respond(r, 500, <<>>, "query failed"))
  /\ UNCHANGED <<variant, inventory, dbFile, rows, seq, blobs, handed, removed>>

SGetPhoto(s) ==
  /\ variant = "sql" /\ reqs[s].pc = "selected" /\ reqs[s].op = "getphoto"
  /\ LET r == reqs[s] IN
     reqs' = [reqs EXCEPT ![s] =
       IF r.item = NoItem
       THEN Respond(r, 404, <<>>, "Inventory with this id not found")
       ELSE IF r.item.photo = NULL
       THEN Respond(r, 404, <<>>, "Inventory has no photo")
       ELSE IF r.item.photo \notin blobs
       THEN Respond(r, 404, <<>>, "Photo not found")
       ELSE Respond(r, 200, <<>>, r.item.photo)]
  /\ UNCHANGED <<variant, inventory, dbFile, rows, seq, blobs, nextBlob, calls,
                 handed, removed>>

SPutPhotoSelect(s) ==
  /\ variant = "sql" /\ Arrives(s)
  /\ \E id \in TargetIds, up \in BOOLEAN, ok \in BOOLEAN :
       LET r == NewReq("putphoto", id, NULL, NULL, NULL, Upload(up)) IN
       /\ Counted(r)
       /\ IF ok
          THEN /\ blobs' = WithUpload(r)
               /\ reqs' = Take(s, [r EXCEPT !.pc = "selected", !.item = Row(r.id)])
          ELSE /\ blobs' = Discard(WithUpload(r), r)
               /\ reqs' = Take(s, Respond(r, 500, <<>>, "query failed"))
  /\ UNCHANGED <<variant, inventory, dbFile, rows, seq, handed, removed>>

\* photo update, between the SELECT and the UPDATE
SPutPhoto(s) ==
  /\ variant = "sql" /\ reqs[s].pc = "selected" /\ reqs[s].op = "putphoto"
  /\ LET r == reqs[s] IN
     IF r.item = NoItem
     THEN /\ blobs' = Discard(blobs, r)
          /\ reqs' = [reqs EXCEPT ![s] =
               Respond(r, 404, <<>>, "Inventory with this id not found")]
     ELSE LET gone == ~Falsy(r.item.photo) /\ r.item.photo \in blobs IN
          /\ blobs' = IF gone THEN blobs \ {r.item.photo} ELSE blobs
          /\ reqs' = [reqs EXCEPT ![s] =
               [r EXCEPT !.pc = "setphoto",
                         !.unlinked = IF gone THEN r.item.photo ELSE NULL,
                         !.item = [r.item EXCEPT !.photo = r.file]]]
  /\ UNCHANGED <<variant, inventory, dbFile, rows, seq, nextBlob, calls,
                 handed, removed>>

\* UPDATE inventory SET photo=$1 WHERE id = $2; then the response, or the
\* catch block
SPutPhotoExec(s) ==
  /\ variant = "sql" /\ reqs[s].pc = "setphoto"
  /\ \E ok \in BOOLEAN :
       LET r == reqs[s] IN
       IF ok
       THEN /\ rows' = {IF x.id = r.id THEN [x EXCEPT !.photo = r.item.photo]
                        ELSE x : x \in rows}
            /\ blobs' = blobs
            /\ reqs' = [reqs EXCEPT ![s] =
                 Respond(r, 200, <<formatItemResponse("sql", r.item)>>, "")]
       ELSE /\ rows' = rows
            /\ blobs' = Discard(blobs, r)
            /\ reqs' = [reqs EXCEPT ![s] = Respond(r, 500, <<>>, "query failed")]
  /\ UNCHANGED <<variant, inventory, dbFile, seq, nextBlob, calls, handed,
                 removed>>

SDeleteSelect(s) ==
  /\ variant = "sql" /\ Arrives(s)
  /\ \E id \in TargetIds, ok \in BOOLEAN :
       LET r == NewReq("delete", id, NULL, NULL, NULL, NULL) IN
       /\ Counted(r)
       /\ reqs' = Take(s,
            IF ok THEN [r EXCEPT !.pc = "selected", !.item = Row(r.id)]
            ELSE Respond(r, 500, <<>>, "query failed"))
  /\ UNCHANGED <<variant, inventory, dbFile, rows, seq, blobs, handed, removed>>

\* delete, between the SELECT and the DELETE
SDelete(s) ==
  /\ variant = "sql" /\ reqs[s].pc = "selected" /\ reqs[s].op = "delete"
  /\ LET r == reqs[s] IN
     IF r.item = NoItem
     THEN /\ blobs' = blobs
          /\ reqs' = [reqs EXCEPT ![s] =
               Respond(r, 404, <<>>, "Inventory with this id not found")]
     ELSE LET gone == ~Falsy(r.item.photo) /\ r.item.photo \in blobs IN
          /\ blobs' = IF gone THEN blobs \ {r.item.photo} ELSE blobs
          /\ reqs' = [reqs EXCEPT ![s] =
               [r EXCEPT !.pc = "delete",
                         !.unlinked = IF gone THEN r.item.photo ELSE NULL]]
  /\ UNCHANGED <<variant, inventory, dbFile, rows, seq, nextBlob, calls,
                 handed, removed>>

\* DELETE FROM inventory WHERE id = $1
SDeleteExec(s) ==
  /\ variant = "sql" /\ reqs[s].pc = "delete"
  /\ \E ok \in BOOLEAN :
       LET r == reqs[s] IN
       IF ok
       THEN /\ rows' = {x \in rows : x.id # r.id}
            /\ removed' = removed \cup {r.id}
            /\ reqs' = [reqs EXCEPT ![s] = Respond(r, 200, <<>>, "")]
       ELSE /\ UNCHANGED <<rows, removed>>
            /\ reqs' = [reqs EXCEPT ![s] = Respond(r, 500, <<>>, "query failed")]
  /\ UNCHANGED <<variant, inventory, dbFile, seq, blobs, nextBlob, calls,
                 handed>>

SSearch(s) ==
  /\ variant = "sql" /\ Arrives(s)
  /\ \E id \in TargetIds, hint \in {NULL, "on"}, ok \in BOOLEAN :
       LET r == NewReq("search", id, NULL, NULL, hint, NULL)
           item == Row(r.id)
       IN /\ Counted(r)
          /\ reqs' = Take(s,
               IF ~ok THEN Respond(r, 500, <<>>, "query failed")
               ELSE IF item = NoItem
               THEN Respond(r, 404, <<>>, "Inventory with this id not found")
               ELSE Respond(r, 200, <<searchResponse("sql", item, r.has_photo)>>, ""))
  /\ UNCHANGED <<variant, inventory, dbFile, rows, seq, blobs, handed, removed>>

Next ==
  \/ \E s \in Slots : FRegister(s)
  \/ \E s \in Slots : FList(s)
  \/ \E s \in Slots : FGet(s)
  \/ \E s \in Slots : FUpdate(s)
  \/ \E s \in Slots : FGetPhoto(s)
  \/ \E s \in Slots : FPutPhoto(s)
  \/ \E s \in Slots : FDelete(s)
  \/ \E s \in Slots : FSearch(s)
  \/ Restart
  \/ \E s \in Slots : SRegister(s)
  \/ \E s \in Slots : SRegisterInsert(s)
  \/ \E s \in Slots : SList(s)
  \/ \E s \in Slots : SGet(s)
  \/ \E s \in Slots : SUpdateSelect(s)
  \/ \E s \in Slots : SUpdateExec(s)
  \/ \E s \in Slots : SGetPhotoSelect(s)
  \/ \E s \in Slots : SGetPhoto(s)
  \/ \E s \in Slots : SPutPhotoSelect(s)
  \/ \E s \in Slots : SPutPhoto(s)
  \/ \E s \in Slots : SPutPhotoExec(s)
  \/ \E s \in Slots : SDeleteSelect(s)
  \/ \E s \in Slots : SDelete(s)
  \/ \E s \in Slots : SDeleteExec(s)
  \/ \E s \in Slots : SSearch(s)

Spec == Init /\ [][Next]_vars

\* ---- the record store as the claims see it ----

\* the durable records: the list in inventory.json, or the table
Stored == IF variant = "file" THEN Range(dbFile.list) ELSE rows

\* the records the handlers read: `inventory.list`, or the table
Readable == IF variant = "file" THEN Range(inventory.list) ELSE rows

\* slot s takes a request in this step; the request is reqs'[s]
Served(s) == Arrives(s) /\ calls' = calls + 1

\* the item the handler that responds in this step has looked up
Found(s) ==
  IF variant = "file" THEN find(inventory.list, reqs'[s].id)
  ELSE IF reqs[s].pc = "selected" THEN reqs[s].item
  ELSE Row(reqs'[s].id)

\* the handler of slot s answers in this step, and not with the 500 of a
\* failed query or write
Responds(s) ==
  /\ Served(s) \/ reqs[s].pc = "selected"
  /\ reqs'[s].pc = "done"
  /\ reqs'[s].status # 500

\* ---- claims ----

\* C1: replace_photo removes the old blob only after the new photo reference
\* is recorded: in no state has a photo update unlinked the old blob while a
\* durable record still references that blob.
C1_OldBlobOutlivesReference ==
  \A s \in Slots :
    (reqs[s].op = "putphoto" /\ reqs[s].unlinked # NULL)
      => \A it \in Stored : it.photo # reqs[s].unlinked

\* C2: delete removes the record first and the blob afterwards: in no state
\* has a delete unlinked a blob that a durable record still references.
C2_RecordRemovedBeforeBlob ==
  \A s \in Slots :
    (reqs[s].op = "delete" /\ reqs[s].unlinked # NULL)
      => \A it \in Stored : it.photo # reqs[s].unlinked

\* C3: after a register with an empty or missing name has returned, the
\* upload of that request is not in the upload directory.
C3_RejectedRegisterLeavesNoBlob ==
  \A s \in Slots :
    (reqs[s].op = "register" /\ reqs[s].pc = "done"
       /\ reqs[s].inventory_name \in {NULL, ""} /\ reqs[s].file # NULL)
      => reqs[s].file \notin blobs

\* C4: a register with an empty or missing name answers 400 and leaves the
\* record store as it was: the list, nextId, the file, the rows and the
\* sequence do not change in the step of the handler.
C4_RejectedRegisterKeepsStore ==
  [][\A s \in Slots :
       (Served(s) /\ reqs'[s].op = "register"
          /\ reqs'[s].inventory_name \in {NULL, ""})
         => /\ reqs'[s].pc = "done"
            /\ reqs'[s].status = 400
            /\ inventory' = inventory
            /\ dbFile' = dbFile
            /\ rows' = rows
            /\ seq' = seq]_vars

C4_Witness ==
  \E s \in Slots :
    /\ variant = "file"
    /\ reqs[s].op = "register" /\ reqs[s].pc = "done"
    /\ reqs[s].inventory_name = "" /\ reqs[s].file # NULL
    /\ reqs[s].status = 400
    /\ inventory.nextId = 2

DistinctIds(list) ==
  \A i, j \in 1..Len(list) : i # j => list[i].id # list[j].id

\* C5: in the file variant every id a register returns is greater than every
\* id returned before and is not the id of an item a delete has removed,
\* restarts included; the items in memory and in the file have distinct ids.
C5_IdsNeverReused ==
  [][variant = "file" =>
       /\ DistinctIds(inventory.list) /\ DistinctIds(dbFile.list)
       /\ \A s \in Slots :
            (Served(s) /\ reqs'[s].op = "register"
               /\ reqs'[s].pc = "done" /\ reqs'[s].status = 200)
              => /\ reqs'[s].views[1].id > handed
                 /\ reqs'[s].views[1].id \notin removed]_vars

\* an item was deleted, the process restarted, and the next register got a
\* new id
C5_Witness ==
  \E s \in Slots :
    /\ variant = "file"
    /\ reqs[s].op = "register" /\ reqs[s].pc = "done" /\ reqs[s].status = 200
    /\ removed = {1}
    /\ reqs[s].views[1].id = 2
    /\ inventory.list = <<[id |-> 2, inventory_name |-> "b",
                           description |-> "", photo |-> NULL]>>

\* C6: no persisted item has an empty name.
C6_NameNeverEmpty ==
  \A it \in Stored : it.inventory_name \notin {NULL, ""}

\* C7: a read whose lookup runs while a photo update of the same item is in
\* progress (sql variant) never finds the item referencing a blob that is
\* not in the upload directory.
PutPhotoInProgress(id) ==
  \E t \in Slots :
    reqs[t].op = "putphoto" /\ reqs[t].id = id /\ ~Free(reqs[t])

C7_ReadsSeeLinkedPhoto ==
  [][\A s \in Slots :
       (variant = "sql" /\ Served(s) /\ reqs'[s].op = "get"
          /\ PutPhotoInProgress(reqs'[s].id)
          /\ reqs'[s].status = 200 /\ reqs'[s].views[1].photo # NULL)
         => \E it \in rows' : it.id = reqs'[s].id /\ it.photo \in blobs']_vars

\* C8: a photo update that ends with an error (sql variant) has discarded
\* its own upload only: the blob it found referenced is still there as long
\* as the row references it.
C8_FailedPutPhotoKeepsOldBlob ==
  \A s \in Slots :
    (variant = "sql" /\ reqs[s].op = "putphoto" /\ reqs[s].pc = "done"
       /\ reqs[s].status = 500)
      => /\ reqs[s].file # NULL => reqs[s].file \notin blobs
         /\ \A it \in rows :
              (it.id = reqs[s].id /\ it.photo # NULL
                 /\ it.photo = reqs[s].unlinked) => it.photo \in blobs

\* C9: a register that ends with an error has left neither its blob nor an
\* item referencing it.
C9_FailedRegisterLeavesNothing ==
  \A s \in Slots :
    (reqs[s].op = "register" /\ reqs[s].pc = "done" /\ reqs[s].status = 500
       /\ reqs[s].file # NULL)
      => /\ reqs[s].file \notin blobs
         /\ \A it \in Stored \cup Readable : it.photo # reqs[s].file

Dangling(item) ==
  item # NoItem /\ item.photo # NULL /\ item.photo \notin blobs

\* the stored items of which a list response shows view v
Shown(v) == {it \in Readable : it.id = v.id}

\* C10: a reader that finds an item whose photo reference names a missing
\* blob treats the item as having no photo: list and get answer 200 with
\* the photo of that item null, search with the hint reports no photo,
\* get-photo answers 404.
C10_DanglingReadAsNoPhoto ==
  [][\A s \in Slots :
       (Responds(s) /\ (Dangling(Found(s)) \/ reqs'[s].op = "list"))
         => /\ reqs'[s].op = "list" =>
                 /\ reqs'[s].status = 200
                 /\ \A i \in 1..Len(reqs'[s].views) :
                      \A it \in Shown(reqs'[s].views[i]) :
                        Dangling(it) => reqs'[s].views[i].photo = NULL
            /\ reqs'[s].op = "get" =>
                 reqs'[s].status = 200 /\ reqs'[s].views[1].photo = NULL
            /\ (reqs'[s].op = "search" /\ reqs'[s].has_photo = "on") =>
                 /\ reqs'[s].status = 200
                 /\ reqs'[s].views[1].description =
                      Found(s).description \o " [No photo available]"
            /\ reqs'[s].op = "getphoto" => reqs'[s].status = 404]_vars

\* the record store and the upload directory are as before the step
StoreUnchanged ==
  /\ inventory' = inventory /\ dbFile' = dbFile
  /\ rows' = rows /\ seq' = seq

\* the request of slot s takes a step
Steps(s) == Served(s) \/ (~Free(reqs[s]) /\ reqs'[s] # reqs[s])

\* this step answers the request of slot s
Answers(s) == Steps(s) /\ reqs'[s].pc = "done"

\* the item the handler of slot s works on in this step: the one it finds
\* in the list, or the row its SELECT returned
Held(s) ==
  IF variant = "file" THEN find(inventory.list, reqs'[s].id)
  ELSE reqs[s].item

\* C11: a delete of an id whose earlier delete has succeeded finds no item,
\* answers 404 (500 if its SELECT is rejected), unlinks no blob and leaves
\* the store as it is; the delete that answers 200 leaves no blob of the
\* item behind.
C11_SecondDeleteNotFound ==
  [][\A s \in Slots :
       /\ (Served(s) /\ reqs'[s].op = "delete" /\ reqs'[s].id \in removed)
            => /\ StoreUnchanged /\ blobs' = blobs
               /\ reqs'[s].unlinked = NULL
               /\ \/ reqs'[s].pc = "done" /\ reqs'[s].status = 404
                  \/ variant = "sql" /\ reqs'[s].pc = "done"
                       /\ reqs'[s].status = 500
                  \/ variant = "sql" /\ reqs'[s].pc = "selected"
                       /\ reqs'[s].item = NoItem
       /\ (reqs[s].op = "delete" /\ reqs[s].pc = "selected"
             /\ reqs[s].item = NoItem /\ Steps(s))
            => /\ StoreUnchanged /\ blobs' = blobs
               /\ reqs'[s].pc = "done" /\ reqs'[s].status = 404
               /\ reqs'[s].unlinked = NULL
       /\ (Answers(s) /\ reqs'[s].op = "delete" /\ reqs'[s].status = 200)
            => /\ reqs'[s].id \in removed'
               /\ Held(s) # NoItem
               /\ Held(s).photo \notin blobs']_vars

\* the second delete of item 1 has answered 404 (sql variant, two steps)
C11_Witness ==
  \E s \in Slots :
    /\ variant = "sql"
    /\ reqs[s].op = "delete" /\ reqs[s].pc = "done" /\ reqs[s].status = 404
    /\ reqs[s].id \in removed
    /\ calls = 2

Ids(items) == {it.id : it \in items}

\* C12: a register with a name and no upload that answers 200 has created
\* an item without photo, readable and durable; a list that answers 200
\* presents every readable item, without photo if the item has none; an
\* item that is readable and durable stays readable until a delete handler
\* takes it out; an item without photo gets one only from a photo update
\* (or, in the file variant, from the reload of the file a photo update
\* has written).
C12_RegisteredItemIsListed ==
  [][/\ \A s \in Slots :
          /\ (Answers(s) /\ reqs'[s].op = "register" /\ reqs'[s].status = 200
                /\ reqs'[s].file = NULL)
               => /\ reqs'[s].views[1].photo = NULL
                  /\ \E it \in Readable' \cap Stored' :
                       /\ it.id = reqs'[s].views[1].id
                       /\ it.inventory_name = reqs'[s].inventory_name
                       /\ it.photo = NULL
          /\ (Answers(s) /\ reqs'[s].op = "list" /\ reqs'[s].status = 200)
               => \A it \in Readable :
                    \E i \in 1..Len(reqs'[s].views) :
                      /\ reqs'[s].views[i].id = it.id
                      /\ reqs'[s].views[i].inventory_name = it.inventory_name
                      /\ it.photo = NULL => reqs'[s].views[i].photo = NULL
     /\ \A id \in (Ids(Readable) \cap Ids(Stored)) \ Ids(Readable') :
          \E s \in Slots :
            Steps(s) /\ reqs'[s].op = "delete" /\ reqs'[s].id = id
     /\ \A it \in Readable : \A jt \in Readable' :
          (jt.id = it.id /\ it.photo = NULL /\ jt.photo # NULL)
            => \/ \E s \in Slots :
                    Steps(s) /\ reqs'[s].op = "putphoto" /\ reqs'[s].id = it.id
               \/ variant = "file" /\ jt \in Stored]_vars

\* started with an empty store: register of "b" without upload, then list
C12_Witness ==
  \E s \in Slots :
    /\ variant = "file" /\ calls = 2
    /\ reqs[s].op = "list" /\ reqs[s].pc = "done" /\ reqs[s].status = 200
    /\ reqs[s].views = <<[id |-> 1, inventory_name |-> "b",
                          description |-> "", photo |-> NULL]>>
    /\ dbFile.list = <<[id |-> 1, inventory_name |-> "b",
                        description |-> "", photo |-> NULL]>>

\* C13: (file variant) an update that follows a finished update of the same
\* id, both answered 200, leaves in memory and in inventory.json the item
\* the first one answered with, changed in the fields the second supplies:
\* the two read-modify-write-flush sections ran one after the other.
C13_UpdatesSerialized ==
  [][\A s \in Slots :
       (variant = "file" /\ Served(s)
          /\ reqs[s].op = "update" /\ reqs[s].pc = "done"
          /\ reqs[s].status = 200
          /\ reqs'[s].op = "update" /\ reqs'[s].id = reqs[s].id
          /\ reqs'[s].status = 200)
         => LET first == reqs[s].views[1]
                second == reqs'[s]
                name == IF second.inventory_name = NULL
                        THEN first.inventory_name ELSE second.inventory_name
                desc == IF second.description = NULL
                        THEN first.description ELSE second.description
                mem == find(inventory'.list, second.id)
            IN /\ mem.id = second.id
               /\ mem.inventory_name = name /\ mem.description = desc
               /\ dbFile'.list = inventory'.list
               /\ dbFile'.nextId = inventory'.nextId
               /\ Len(inventory'.list) = Len(inventory.list)]_vars

\* update of the description of item 1, then update of its name
C13_Witness ==
  \E s \in Slots :
    /\ variant = "file" /\ calls = 2
    /\ reqs[s].op = "update" /\ reqs[s].pc = "done" /\ reqs[s].status = 200
    /\ reqs[s].inventory_name = "b" /\ reqs[s].description = NULL
    /\ dbFile.list = <<[id |-> 1, inventory_name |-> "b",
                        description |-> "e", photo |-> NULL]>>
    /\ inventory.list = dbFile.list

Mutating == {"register", "update", "putphoto", "delete"}

\* C14: (file variant) when a register, update, photo update or delete
\* answers 200, inventory.json holds the in-memory object, nextId and list
\* from the same write; and in every step the file's nextId is greater
\* than every id in the file's list.
C14_FileEqualsMemory ==
  [][variant = "file" =>
       /\ \A s \in Slots :
            (Answers(s) /\ reqs'[s].op \in Mutating /\ reqs'[s].status = 200)
              => /\ JSONparse(dbFile') = inventory'
                 /\ dbFile'.nextId = inventory'.nextId
                 /\ dbFile'.list = inventory'.list
       /\ \A i \in 1..Len(dbFile'.list) : dbFile'.list[i].id < dbFile'.nextId
       /\ (dbFile'.nextId # dbFile.nextId \/ dbFile'.list # dbFile.list)
            => \E s \in Slots : Answers(s) /\ reqs'[s].op \in Mutating
                                  /\ reqs'[s].status = 200]_vars

\* a second item was registered: list and counter are in the file
C14_Witness ==
  \E s \in Slots :
    /\ variant = "file"
    /\ reqs[s].op = "register" /\ reqs[s].pc = "done" /\ reqs[s].status = 200
    /\ dbFile.nextId = 3 /\ Len(dbFile.list) = 2
    /\ inventory = JSONparse(dbFile)

\* C15: a search changes neither the records nor the upload directory;
\* when it answers 200 the description it returns is the stored one, with
\* one marker after it if the hint is "on" and none otherwise; (file
\* variant) a search repeated right after a search returns what that one
\* returned.
C15_SearchIsReadOnly ==
  [][\A s \in Slots :
       (Served(s) /\ reqs'[s].op = "search")
         => /\ StoreUnchanged /\ blobs' = blobs
            /\ reqs'[s].pc = "done"
            /\ reqs'[s].status = 200 =>
                 LET it == Found(s)
                     url == PhotoUrl(variant, it.id)
                 IN /\ it # NoItem
                    /\ reqs'[s].views[1].description =
                         IF reqs'[s].has_photo # "on" THEN it.description
                         ELSE IF it.photo = NULL
                         THEN it.description \o " [No photo available]"
                         ELSE IF variant = "file"
                         THEN it.description \o " [Photo:" \o url \o "]"
                         ELSE it.description \o " [Photo: " \o url \o " ]"
            /\ (variant = "file" /\ reqs[s].op = "search"
                  /\ reqs[s].pc = "done" /\ reqs[s].id = reqs'[s].id
                  /\ reqs[s].has_photo = reqs'[s].has_photo)
                 => /\ reqs'[s].status = reqs[s].status
                    /\ reqs'[s].views = reqs[s].views]_vars

\* the search of item 1 with the hint was repeated
C15_Witness ==
  \E s \in Slots :
    /\ variant = "file" /\ calls = 2
    /\ reqs[s].op = "search" /\ reqs[s].pc = "done" /\ reqs[s].status = 200
    /\ reqs[s].has_photo = "on"
    /\ reqs[s].views[1].description = "d [No photo available]"
    /\ inventory.list = <<Item1(NULL)>> /\ dbFile.list = <<Item1(NULL)>>

\* C16: when a photo update answers 200 the item references the upload of
\* the request (null if there was none) and that blob is in the upload
\* directory, so that a get which follows reports a photo exactly when an
\* upload was supplied; the blob the handler found referenced is gone.
C16_PutPhotoLinksNewBlob ==
  [][\A s \in Slots :
       /\ (Answers(s) /\ reqs'[s].op = "putphoto" /\ reqs'[s].status = 200)
            => /\ \E it \in Readable' :
                    it.id = reqs'[s].id /\ it.photo = reqs'[s].file
               /\ reqs'[s].file # NULL => reqs'[s].file \in blobs'
               /\ (reqs'[s].views[1].photo # NULL) <=> (reqs'[s].file # NULL)
       /\ (Steps(s) /\ reqs'[s].op = "putphoto"
             /\ (variant = "file" \/ reqs[s].pc = "selected")
             /\ Held(s) # NoItem /\ Held(s).photo # NULL)
            => Held(s).photo \notin blobs']_vars

\* the lookup of the request that arrives in slot s finds no item
Absent(s) ==
  IF variant = "file" THEN find(inventory.list, reqs'[s].id) = NoItem
  ELSE Row(reqs'[s].id) = NoItem

\* C17: a get, update, photo update, delete, search or get-photo whose
\* lookup finds no item answers 404 (500 if the SELECT is rejected) and
\* changes neither the records nor the blobs that were there; the upload
\* of a photo update for an absent id is not in the upload directory when
\* the handler has answered.
C17_AbsentIdChangesNothing ==
  [][\A s \in Slots :
       /\ (Served(s) /\ reqs'[s].op \in ByIdOps /\ Absent(s))
            => /\ StoreUnchanged
               /\ blobs' \ {reqs'[s].file} = blobs
               /\ \/ /\ reqs'[s].pc = "done"
                     /\ reqs'[s].status = 404
                          \/ (variant = "sql" /\ reqs'[s].status = 500)
                     /\ reqs'[s].file \notin blobs'
                  \/ /\ variant = "sql" /\ reqs'[s].pc = "selected"
                     /\ reqs'[s].item = NoItem
       /\ (reqs[s].pc = "selected" /\ reqs[s].item = NoItem /\ Steps(s))
            => /\ StoreUnchanged
               /\ blobs' = blobs \ {reqs[s].file}
               /\ reqs'[s].pc = "done" /\ reqs'[s].status = 404
               /\ reqs'[s].file \notin blobs']_vars

\* a photo update with an upload for an id that is not there has answered
C17_Witness ==
  \E s \in Slots :
    /\ variant = "sql"
    /\ reqs[s].op = "putphoto" /\ reqs[s].pc = "done" /\ reqs[s].status = 404
    /\ reqs[s].file # NULL /\ reqs[s].file \notin blobs
    /\ rows # {}

\* C18: (file variant) an id whose delete has answered 200 is in neither
\* the in-memory list nor inventory.json in any later state, and every
\* later get, search, update, photo update, get-photo and delete of it
\* answers 404.
C18_DeletedIsTerminal ==
  [][variant = "file" =>
       /\ removed' \cap (Ids(Readable') \cup Ids(Stored')) = {}
       /\ removed \subseteq removed'
       /\ \A s \in Slots :
            (Served(s) /\ reqs'[s].op \in ByIdOps /\ reqs'[s].id \in removed)
              => /\ reqs'[s].pc = "done" /\ reqs'[s].status = 404
                 /\ StoreUnchanged]_vars

\* item 1 was deleted; the get that followed found nothing
C18_Witness ==
  \E s \in Slots :
    /\ variant = "file"
    /\ reqs[s].op = "get" /\ reqs[s].pc = "done" /\ reqs[s].status = 404
    /\ reqs[s].id \in removed

\* the items other than the one with this id
Others(items, id) == {it \in items : it.id # id}

\* C19 (as stated): when an update answers 200, the item as it was stored
\* right before the handler's write keeps its id, its photo and every
\* field the request does not supply; the blobs and the other items are
\* unchanged.
C19_UpdateChangesSuppliedOnly ==
  [][\A s \in Slots :
       (Answers(s) /\ reqs'[s].op = "update" /\ reqs'[s].status = 200)
         => /\ blobs' = blobs
            /\ Others(Readable', reqs'[s].id) = Others(Readable, reqs'[s].id)
            /\ \A x \in Readable :
                 x.id = reqs'[s].id =>
                   \E y \in Readable' :
                     /\ y.id = x.id /\ y.photo = x.photo
                     /\ y.inventory_name =
                          IF reqs'[s].inventory_name = NULL
                          THEN x.inventory_name ELSE reqs'[s].inventory_name
                     /\ y.description =
                          IF reqs'[s].description = NULL
                          THEN x.description ELSE reqs'[s].description]_vars

\* C19 (amended): the fields an update does not supply get the values the
\* handler read (file: the item in the list; sql: the row its SELECT
\* returned, written back by its UPDATE); the id, the photo, the blobs and
\* the other items are unchanged.
C19_UpdateWritesBackWhatItRead ==
  [][\A s \in Slots :
       /\ (Steps(s) /\ reqs'[s].op = "update")
            => /\ blobs' = blobs
               /\ Others(Readable', reqs'[s].id) = Others(Readable, reqs'[s].id)
               /\ \A x \in Readable : x.id = reqs'[s].id =>
                    \E y \in Readable' : y.id = x.id /\ y.photo = x.photo
       /\ (Served(s) /\ reqs'[s].op = "update" /\ ~Absent(s)
             /\ reqs'[s].status # 500)
            => LET x == IF variant = "file"
                        THEN find(inventory.list, reqs'[s].id)
                        ELSE Row(reqs'[s].id)
                   y == IF variant = "file"
                        THEN find(inventory'.list, reqs'[s].id)
                        ELSE reqs'[s].item
               IN /\ y.id = x.id /\ y.photo = x.photo
                  /\ y.inventory_name =
                       IF reqs'[s].inventory_name = NULL
                       THEN x.inventory_name ELSE reqs'[s].inventory_name
                  /\ y.description =
                       IF reqs'[s].description = NULL
                       THEN x.description ELSE reqs'[s].description
       /\ (variant = "sql" /\ reqs[s].pc = "update" /\ Steps(s)
             /\ reqs'[s].status = 200)
            => \A y \in rows' : y.id = reqs[s].id =>
                 /\ y.inventory_name = reqs[s].item.inventory_name
                 /\ y.description = reqs[s].item.description]_vars

\* item 1 was given a new name only (sql variant)
C19_Witness ==
  \E s \in Slots :
    /\ variant = "sql"
    /\ reqs[s].op = "update" /\ reqs[s].pc = "done" /\ reqs[s].status = 200
    /\ reqs[s].inventory_name = "b" /\ reqs[s].description = NULL
    /\ rows = {[Item1(NULL) EXCEPT !.inventory_name = "b"]}

\* the requests of slots s and t are two updates of one id that were in
\* flight together, both answered 200, s supplying only a name and t only
\* a description, and no other update of that id is in the slots
Raced(s, t) ==
  /\ variant = "sql" /\ s # t
  /\ reqs[s].op = "update" /\ reqs[t].op = "update"
  /\ reqs[s].id = reqs[t].id
  /\ reqs[s].pc = "done" /\ reqs[s].status = 200
  /\ reqs[t].pc = "done" /\ reqs[t].status = 200
  /\ reqs[s].inventory_name # NULL /\ reqs[s].description = NULL
  /\ reqs[t].inventory_name = NULL /\ reqs[t].description # NULL
  /\ \A u \in Slots \ {s, t} :
       ~(reqs[u].op = "update" /\ reqs[u].id = reqs[s].id)

\* C20 (as stated): after two interleaved updates of one id, one of the
\* name and one of the description, the row carries both new values.
C20_BothUpdatesKept ==
  \A s, t \in Slots :
    Raced(s, t) =>
      \A x \in rows : x.id = reqs[s].id =>
        /\ x.inventory_name = reqs[s].inventory_name
        /\ x.description = reqs[t].description

\* C20 (amended): after the two updates the row is what one of them wrote,
\* the one whose UPDATE ran last: it carries that request's new value, and
\* in the other field the value that request read, which need not be the
\* other request's new value.
C20_LastWriterWins ==
  \A s, t \in Slots :
    Raced(s, t) =>
      \A x \in rows : x.id = reqs[s].id =>
        /\ \E u \in {s, t} :
             /\ x.inventory_name = reqs[u].views[1].inventory_name
             /\ x.description = reqs[u].views[1].description
        /\ \/ x.inventory_name = reqs[s].inventory_name
           \/ x.description = reqs[t].description

\* the update of the description ran last and wrote back the old name
C20_Witness ==
  \E s, t \in Slots :
    /\ Raced(s, t)
    /\ reqs[s].inventory_name = "b" /\ reqs[t].description = "e"
    /\ rows = {[Item1(NULL) EXCEPT !.description = "e"]}

\* C21: (sql variant) of two deletes of one id that were in flight
\* together at most one has answered 200, and at most one has unlinked
\* the item's blob.
C21_OneDeleteSucceeds ==
  \A s, t \in Slots :
    (variant = "sql" /\ s # t
       /\ reqs[s].op = "delete" /\ reqs[t].op = "delete"
       /\ reqs[s].id = reqs[t].id
       /\ reqs[s].pc = "done" /\ reqs[t].pc = "done")
      => /\ ~(reqs[s].status = 200 /\ reqs[t].status = 200)
         /\ ~(reqs[s].unlinked # NULL /\ reqs[t].unlinked # NULL)

\* ---- sql variant, one request at a time and no failing query ----

InitSeq == Init /\ variant = "sql"

\* the step belongs to the request of slot s, no other request is in
\* flight, and no query of it is rejected
Alone(s) ==
  /\ \A t \in Slots \ {s} : Free(reqs[t])
  /\ reqs'[s].status # 500

NextSeq ==
  \/ \E s \in Slots : SRegister(s) /\ Alone(s)
  \/ \E s \in Slots : SRegisterInsert(s) /\ Alone(s)
  \/ \E s \in Slots : SList(s) /\ Alone(s)
  \/ \E s \in Slots : SGet(s) /\ Alone(s)
  \/ \E s \in Slots : SUpdateSelect(s) /\ Alone(s)
  \/ \E s \in Slots : SUpdateExec(s) /\ Alone(s)
  \/ \E s \in Slots : SGetPhotoSelect(s) /\ Alone(s)
  \/ \E s \in Slots : SGetPhoto(s) /\ Alone(s)
  \/ \E s \in Slots : SPutPhotoSelect(s) /\ Alone(s)
  \/ \E s \in Slots : SPutPhoto(s) /\ Alone(s)
  \/ \E s \in Slots : SPutPhotoExec(s) /\ Alone(s)
  \/ \E s \in Slots : SDeleteSelect(s) /\ Alone(s)
  \/ \E s \in Slots : SDelete(s) /\ Alone(s)
  \/ \E s \in Slots : SDeleteExec(s) /\ Alone(s)
  \/ \E s \in Slots : SSearch(s) /\ Alone(s)

SpecSeq == InitSeq /\ [][NextSeq]_vars

\* the non-null photo references of the rows
Referenced == {x.photo : x \in rows} \ {NULL}

\* C22: (sql variant, requests one at a time, no failing query) whenever no
\* request is in flight the upload directory holds exactly the blobs the
\* rows reference.
C22_BlobsMatchReferences ==
  (\A s \in Slots : Free(reqs[s])) => blobs = Referenced

\* the photo of item 1 was replaced: the old blob is gone, the new one is
\* the only one
C22_Witness ==
  \E s \in Slots :
    /\ reqs[s].op = "putphoto" /\ reqs[s].pc = "done" /\ reqs[s].status = 200
    /\ reqs[s].unlinked = BlobName(1)
    /\ rows = {Item1(BlobName(2))}
    /\ blobs = {BlobName(2)}

====
